---- MODULE Spec2Model ----
(***************************************************************************)
(* banzai: the realtime idempotency predicate (need_to_process_image), the *)
(* processed-image ledger it reads and writes, and the realtime listener   *)
(* (RealtimeModeListener.on_message) that drives them (Spec, and SpecConc  *)
(* for two listeners on one file); the reduction of one frame by main.run  *)
(* (SpecRun); and the utility functions get_stages_todo,                   *)
(* make_image_path_list, check_image_homogeneity, select_images,           *)
(* get_configuration_mode and the ledger mutators, each called once on     *)
(* arguments drawn from bounded sets (SpecUtils).                          *)
(*                                                                         *)
(* Python values are modelled as follows.  A str is a sequence of          *)
(* one-character strings; None, where a str is expected, is the one-element*)
(* sequence <<"None">>, which no str equals.  A FITS header is a record    *)
(* whose fields are the header keys that are present; a header that could  *)
(* not be read is NoneHeader.  The result of a call that may raise is one  *)
(* of "true", "false", "raise".                                            *)
(***************************************************************************)
EXTENDS Integers, Sequences, FiniteSets, TLC

VARIABLES ledger, ctx, pc, body, acks, trace, call, res, runres, runs,
          done, arg, ret, job, proc

\* the state of the listeners and of the ledger they share; runs counts, for
\* each path, the pipeline runs on it since its record was last reset; done
\* holds, where the runs are noted, the path and the checksum of the file of
\* every run that returned
listenerVars ==
    <<ledger, ctx, pc, body, acks, trace, call, res, runres, runs, done>>

\* arg, ret: the arguments and the result of one call of a utility function;
\* job: the state of one call of main.run; proc: the state of one listener
\* process and of the broker it connects to
utilVars == <<arg, ret, job, proc>>

vars ==
    <<ledger, ctx, pc, body, acks, trace, call, res, runres, runs, done,
      arg, ret, job, proc>>

(***************************************************************************)
(* Bounds and program constants                                            *)
(***************************************************************************)

\* max_tries=5, the default of need_to_process_image and file_is_processed
DefaultMaxTries == 5

\* a second, smaller value of runtime_context.max_tries
SmallMaxTries == 2

(***************************************************************************)
(* Strings                                                                 *)
(***************************************************************************)

None == <<"None">>

\* str.endswith
EndsWith(s, suffix) ==
    /\ Len(s) >= Len(suffix)
    /\ SubSeq(s, Len(s) - Len(suffix) + 1, Len(s)) = suffix

DotFits == <<".", "f", "i", "t", "s">>
DotFitsFz == <<".", "f", "i", "t", "s", ".", "f", "z">>

FitsPath == <<"a", ".", "f", "i", "t", "s">>
FzPath == <<"b", ".", "f", "i", "t", "s", ".", "f", "z">>
TxtPath == <<"c", ".", "t", "x", "t">>

\* the paths the broker announces
Paths == {FitsPath, FzPath, TxtPath}

(***************************************************************************)
(* Files: what is on disc at a path when it is read                        *)
(***************************************************************************)

\* the file contents a path may hold
Contents == {"rawbias", "raw00", "red91", "guide", "corrupt"}

NoneHeader == [isNone |-> TRUE]

\* fits_utils.get_primary_header: the primary header of the file, None when
\* none can be read
GetPrimaryHeader(content) ==
    CASE content = "rawbias" -> [OBSTYPE |-> "BIAS"]
      [] content = "raw00"   -> [OBSTYPE |-> "EXPOSE", RLEVEL |-> "00"]
      [] content = "red91"   -> [OBSTYPE |-> "EXPOSE", RLEVEL |-> "91"]
      [] content = "guide"   -> [OBSTYPE |-> "GUIDE", RLEVEL |-> "00"]
      [] OTHER               -> NoneHeader

\* file_utils.get_md5: the digest of the file's bytes
GetMd5(content) ==
    CASE content = "rawbias" -> "49a6"
      [] content = "raw00"   -> "aec5"
      [] content = "red91"   -> "07c1"
      [] content = "guide"   -> "e3b0"
      [] OTHER               -> "d41d"

\* dict.get(key, default) on a header
HeaderGet(header, key, default) ==
    IF key \in DOMAIN header THEN header[key] ELSE default

get_obstype(header) == HeaderGet(header, "OBSTYPE", "None")

get_reduction_level(header) == HeaderGet(header, "RLEVEL", "00")

\* the observation types with a configured last stage (keys of settings.LAST_STAGE)
LAST_STAGE ==
    {"BIAS", "DARK", "SKYFLAT", "EXPOSE", "STANDARD", "TRAILED", "EXPERIMENTAL"}

(***************************************************************************)
(* Instruments: the outcome of dbs.get_instrument(header) together with    *)
(* instrument_passes_criteria(instrument, FRAME_SELECTION_CRITERIA)        *)
(***************************************************************************)

InstrumentValueError == [error |-> "ValueError"]

Instruments ==
    {InstrumentValueError} \cup [passes : BOOLEAN, schedulable : BOOLEAN]

(***************************************************************************)
(* The processed-image ledger                                              *)
(***************************************************************************)

NoRec == [norec |-> TRUE]

NoSum == ""

\* dbs.get_processed_image: fetch the record of the path, creating it on the
\* first sighting
GetProcessedImage(rec) ==
    IF rec = NoRec THEN [checksum |-> NoSum, tries |-> 0, success |-> FALSE]
    ELSE rec

\* realtime_utils.file_changed_on_disc
FileChangedOnDisc(rec, content) ==
    GetProcessedImage(rec).checksum # GetMd5(content)

\* realtime_utils.reset_tries, mutated: the record is committed as one of a
\* file that is done
ResetTriesClaiming(rec, content) ==
    [GetProcessedImage(rec) EXCEPT !.checksum = GetMd5(content),
                                   !.tries = 0,
                                   !.success = TRUE]

\* realtime_utils.reset_tries: the record committed
ResetTries(rec, content) ==
    [GetProcessedImage(rec) EXCEPT !.checksum = GetMd5(content),
                                   !.tries = 0,
                                   !.success = FALSE]

\* realtime_utils.file_is_processed, mutated: <= instead of <
FileIsProcessedOffByOne(rec, max_tries) ==
    ~(GetProcessedImage(rec).tries <= max_tries /\ ~GetProcessedImage(rec).success)

\* realtime_utils.file_is_processed, mutated: the success flag is not read
FileIsProcessedIgnoringSuccess(rec, max_tries) ==
    ~(GetProcessedImage(rec).tries < max_tries)

\* realtime_utils.file_is_processed: the value returned
FileIsProcessed(rec, max_tries) ==
    ~(GetProcessedImage(rec).tries < max_tries /\ ~GetProcessedImage(rec).success)

\* realtime_utils.file_is_processed, mutated: the record is committed on
\* every call
FileIsProcessedCommitsAlways(rec, max_tries) == <<GetProcessedImage(rec)>>

\* realtime_utils.file_is_processed: the records it commits, in order
FileIsProcessedCommits(rec, max_tries) ==
    IF GetProcessedImage(rec).tries < max_tries /\ ~GetProcessedImage(rec).success
    THEN <<GetProcessedImage(rec)>>
    ELSE <<>>

\* realtime_utils.increment_try_number, mutated: tries += 2
IncrementTryNumberByTwo(rec) ==
    [GetProcessedImage(rec) EXCEPT !.tries = @ + 2]

\* realtime_utils.increment_try_number: the record committed
IncrementTryNumber(rec) ==
    [GetProcessedImage(rec) EXCEPT !.tries = @ + 1]

\* realtime_utils.set_file_as_processed: the record of the path afterwards.
\* `if image is not None` is the test against NoRec; the image fetched is
\* never None, since the fetch creates the record that is missing.
SetFileAsProcessed(rec) ==
    LET image == GetProcessedImage(rec)
    IN  IF image # NoRec THEN [image EXCEPT !.success = TRUE] ELSE rec

(***************************************************************************)
(* image_utils.need_to_process_image                                       *)
(***************************************************************************)

\* the test of the extension (the condition under `not`)
HasFitsExtension(path) == EndsWith(path, DotFits) \/ EndsWith(path, DotFitsFz)

\* the condition of `if not get_reduction_level(header) != '00'`:
\* `not` binds weaker than `!=`, so this is not (level != '00')
ReductionLevelRejected(header) == ~(get_reduction_level(header) # "00")

\* the try block on the instrument, mutated: ignore_schedulability is not
\* read
InstrumentRejectedStrict(instrument, ignore_schedulability) ==
    IF instrument = InstrumentValueError THEN TRUE
    ELSE ~instrument.passes \/ ~instrument.schedulable

\* the try block on the instrument: TRUE when it sets process = False
InstrumentRejected(instrument, ignore_schedulability) ==
    IF instrument = InstrumentValueError THEN TRUE
    ELSE \/ ~instrument.passes
         \/ (~ignore_schedulability /\ ~instrument.schedulable)

BoolResult(b) == IF b THEN "true" ELSE "false"

\* The value returned ("raise" when an exception leaves the function), the
\* record of the path afterwards and the records committed on the way.
\* `process` is a flag that every test may clear; no test returns early.
need_to_process_image(path, content, instrument, rec, ignore_schedulability, max_tries) ==
    IF path = None
    THEN \* None.endswith: AttributeError
         [result |-> "raise", rec |-> rec, commits |-> <<>>]
    ELSE LET header == GetPrimaryHeader(content)
             process1 == HasFitsExtension(path)
         IN  IF header = NoneHeader
             THEN \* process = False, then get_obstype(None): AttributeError
                  [result |-> "raise", rec |-> rec, commits |-> <<>>]
             ELSE LET process2 == process1 /\ (get_obstype(header) \in LAST_STAGE)
                      process3 == process2 /\ ~ReductionLevelRejected(header)
                      process4 == process3
                                  /\ ~InstrumentRejected(instrument, ignore_schedulability)
                  IN  IF FileChangedOnDisc(rec, content)
                      THEN [result |-> BoolResult(process4),
                            rec |-> ResetTries(rec, content),
                            commits |-> <<ResetTries(rec, content)>>]
                      ELSE IF FileIsProcessed(rec, max_tries)
                           THEN [result |-> "false",
                                 rec |-> GetProcessedImage(rec),
                                 commits |-> FileIsProcessedCommits(rec, max_tries)]
                           ELSE [result |-> BoolResult(process4),
                                 rec |-> GetProcessedImage(rec),
                                 commits |-> FileIsProcessedCommits(rec, max_tries)]

(***************************************************************************)
(* main.RealtimeModeListener                                               *)
(***************************************************************************)

Listeners == {"l1", "l2"}

\* message bodies: a keyed structure, with or without a `path` field
Bodies == [path : Paths] \cup {[site |-> "ogg"]}

NoBody == [nobody |-> TRUE]

\* body.get('path')
BodyPath(b) == IF "path" \in DOMAIN b THEN b.path ELSE None

NoCall == [nocall |-> TRUE]

\* on_message, mutated: the acknowledgement moved behind the processing
OnMessageAckLast == <<"check", "incr", "run", "mark", "ack">>

\* the calls on_message makes after reading the path, in program order
OnMessageOrder == <<"ack", "check", "incr", "run", "mark">>

\* the calls inside `if realtime.need_to_process_image(...):`
IfBlock == {"incr", "run", "mark"}

IndexOf(stmt) == CHOOSE i \in 1..Len(OnMessageOrder) : OnMessageOrder[i] = stmt

\* the statement control reaches after `stmt` returned
After(stmt) ==
    IF IndexOf(stmt) = Len(OnMessageOrder) THEN "returned"
    ELSE OnMessageOrder[IndexOf(stmt) + 1]

\* the statement control reaches when the `if` is not taken
AfterIfNotTaken(stmt) ==
    LET rest == {i \in (IndexOf(stmt) + 1)..Len(OnMessageOrder) :
                    OnMessageOrder[i] \notin IfBlock}
    IN  IF rest = {} THEN "returned"
        ELSE OnMessageOrder[CHOOSE i \in rest : \A j \in rest : i <= j]

\* after the predicate: into the if block, past it, or to the except clause
AfterCheck(result) ==
    CASE result = "true"  -> After("check")
      [] result = "false" -> AfterIfNotTaken("check")
      [] OTHER            -> "handler"

\* run(...), mutated: an exception of the run does not leave the try body
AfterRunSwallowed(outcome) == After("run")

\* after run(...): the next statement, or the except clause when it raised
AfterRun(outcome) == IF outcome = "raised" THEN "handler" ELSE After("run")

\* the except clause evaluates os.path.basename(path), which raises on None
HandlerOutcome(path) == IF path = None THEN "crashed" ELSE "returned"

\* a message with one of `bodies` is delivered to a listener that is waiting
\* for one
ReceiveFrom(l, bodies) ==
    /\ pc[l] \in {"idle", "returned"}
    /\ \E b \in bodies : body' = [body EXCEPT ![l] = b]
    /\ pc' = [pc EXCEPT ![l] = OnMessageOrder[1]]
    /\ acks' = [acks EXCEPT ![l] = 0]
    /\ trace' = [trace EXCEPT ![l] = <<>>]
    /\ call' = [call EXCEPT ![l] = NoCall]
    /\ res' = [res EXCEPT ![l] = "none"]
    /\ runres' = [runres EXCEPT ![l] = "none"]
    /\ UNCHANGED <<ledger, ctx, runs, done,
                 utilVars>>

\* on_message is called with any message of the queue
Receive(l) == ReceiveFrom(l, Bodies)

\* message.ack()
Ack(l) ==
    /\ pc[l] = "ack"
    /\ acks' = [acks EXCEPT ![l] = @ + 1]
    /\ trace' = [trace EXCEPT ![l] = Append(@, "ack")]
    /\ pc' = [pc EXCEPT ![l] = After("ack")]
    /\ call' = [call EXCEPT ![l] = NoCall]
    /\ UNCHANGED <<ledger, ctx, body, res, runres, runs, done,
                 utilVars>>

\* realtime.need_to_process_image(path, ...) on the file as it is on disc
\* now, one of `contents`, its camera being one of `instruments`
CheckWith(l, contents, instruments) ==
    /\ pc[l] = "check"
    /\ \E content \in contents, instrument \in instruments :
         LET path == BodyPath(body[l])
             before == IF path \in Paths THEN ledger[path] ELSE NoRec
             out == need_to_process_image(path, content, instrument, before,
                                          ctx.ignore_schedulability, ctx.max_tries)
         IN  /\ ledger' = IF path \in Paths /\ out.result # "raise"
                          THEN [ledger EXCEPT ![path] = out.rec]
                          ELSE ledger
             /\ call' = [call EXCEPT ![l] = [path |-> path, content |-> content,
                                             instrument |-> instrument,
                                             before |-> before,
                                             after |-> out.rec,
                                             commits |-> out.commits]]
             /\ runs' = IF /\ path \in Paths
                           /\ out.result # "raise"
                           /\ FileChangedOnDisc(before, content)
                        THEN [runs EXCEPT ![path] = 0]
                        ELSE runs
             /\ res' = [res EXCEPT ![l] = out.result]
             /\ pc' = [pc EXCEPT ![l] = AfterCheck(out.result)]
    /\ trace' = [trace EXCEPT ![l] = Append(@, "check")]
    /\ UNCHANGED <<ctx, body, acks, runres, done, utilVars>>

\* the file may hold anything and belong to any camera
Check(l) == CheckWith(l, Contents, Instruments)

\* realtime.increment_try_number(path)
Increment(l) ==
    /\ pc[l] = "incr"
    /\ ledger' = [ledger EXCEPT ![BodyPath(body[l])] = IncrementTryNumber(@)]
    /\ trace' = [trace EXCEPT ![l] = Append(@, "incr")]
    /\ pc' = [pc EXCEPT ![l] = After("incr")]
    /\ UNCHANGED <<ctx, body, acks, call, res, runres, runs, done,
                 utilVars>>

\* run(path, runtime_context), on the file as need_to_process_image found
\* it: returns, or raises.  With `noted` the run that returned is put down
\* in done.
RunNoting(l, noted) ==
    /\ pc[l] = "run"
    /\ \E outcome \in {"returned", "raised"} :
         /\ runres' = [runres EXCEPT ![l] = outcome]
         /\ pc' = [pc EXCEPT ![l] = AfterRun(outcome)]
         /\ done' = IF noted /\ outcome = "returned"
                    THEN done \cup {[path |-> BodyPath(body[l]),
                                     checksum |-> GetMd5(call[l].content)]}
                    ELSE done
    /\ trace' = [trace EXCEPT ![l] = Append(@, "run")]
    /\ runs' = [runs EXCEPT ![BodyPath(body[l])] = @ + 1]
    /\ UNCHANGED <<ledger, ctx, body, acks, call, res, utilVars>>

\* run(path, runtime_context): returns, or raises
Run(l) == RunNoting(l, FALSE)

\* realtime.set_file_as_processed(path)
Mark(l) ==
    /\ pc[l] = "mark"
    /\ ledger' = [ledger EXCEPT ![BodyPath(body[l])] = SetFileAsProcessed(@)]
    /\ trace' = [trace EXCEPT ![l] = Append(@, "mark")]
    /\ pc' = [pc EXCEPT ![l] = After("mark")]
    /\ call' = [call EXCEPT ![l] = NoCall]
    /\ UNCHANGED <<ctx, body, acks, res, runres, runs, done,
                 utilVars>>

\* except Exception: logger.error(..., os.path.basename(path))
Handler(l) ==
    /\ pc[l] = "handler"
    /\ pc' = [pc EXCEPT ![l] = HandlerOutcome(BodyPath(body[l]))]
    /\ trace' = [trace EXCEPT ![l] = Append(@, "except")]
    /\ UNCHANGED <<ledger, ctx, body, acks, call, res, runres, runs, done,
                 utilVars>>

NoArg == [fn |-> "none"]

NoRet == [result |-> "none"]

NoJob == [pc |-> "none"]

NoProc == [pc |-> "none"]

\* no utility function, no run and no listener process is under way
UtilsIdle == arg = NoArg /\ ret = NoRet /\ job = NoJob /\ proc = NoProc

\* run_realtime_pipeline with the listeners `started`, an empty ledger and
\* one of the runtime contexts
ListenersInit(started, contexts) ==
    /\ ledger = [p \in Paths |-> NoRec]
    /\ ctx \in contexts
    /\ pc = [l \in Listeners |-> IF l \in started THEN "idle" ELSE "off"]
    /\ body = [l \in Listeners |-> NoBody]
    /\ acks = [l \in Listeners |-> 0]
    /\ trace = [l \in Listeners |-> <<>>]
    /\ call = [l \in Listeners |-> NoCall]
    /\ res = [l \in Listeners |-> "none"]
    /\ runres = [l \in Listeners |-> "none"]
    /\ runs = [p \in Paths |-> 0]
    /\ done = {}

\* the runtime contexts: --ignore-schedulability and --max-tries
Contexts == [ignore_schedulability : BOOLEAN,
             max_tries : {SmallMaxTries, DefaultMaxTries}]

InitWith(started) == UtilsIdle /\ ListenersInit(started, Contexts)

Init == InitWith({"l1"})

Next ==
    \E l \in Listeners :
        \/ Receive(l)
        \/ Ack(l)
        \/ Check(l)
        \/ Increment(l)
        \/ Run(l)
        \/ Mark(l)
        \/ Handler(l)

Spec == Init /\ [][Next]_vars

(***************************************************************************)
(* Two listeners of the pool of run_realtime_pipeline, receiving messages  *)
(* for one path whose file is not rewritten                                *)
(***************************************************************************)

SamePathBodies == {[path |-> FitsPath]}

\* what the file holds, all the time
SameContents == {"red91"}

\* the camera of the file: it passes the criteria and is schedulable
SameInstruments == {[passes |-> TRUE, schedulable |-> TRUE]}

ReceiveSame(l) == ReceiveFrom(l, SamePathBodies)

CheckSame(l) == CheckWith(l, SameContents, SameInstruments)

InitConc == InitWith(Listeners)

NextConc ==
    \E l \in Listeners :
        \/ ReceiveSame(l)
        \/ Ack(l)
        \/ CheckSame(l)
        \/ Increment(l)
        \/ Run(l)
        \/ Mark(l)
        \/ Handler(l)

SpecConc == InitConc /\ [][NextConc]_vars

(***************************************************************************)
(* Two listeners receiving messages for one path whose file is rewritten   *)
(* between the messages; the runs that returned are noted                  *)
(***************************************************************************)

\* the file holds a reduced frame at one time and a raw frame at another
CheckChanging(l) == CheckWith(l, {"red91", "raw00"}, SameInstruments)

NextChanging ==
    \E l \in Listeners :
        \/ ReceiveSame(l)
        \/ Ack(l)
        \/ CheckChanging(l)
        \/ Increment(l)
        \/ RunNoting(l, TRUE)
        \/ Mark(l)
        \/ Handler(l)

SpecChanging == InitConc /\ [][NextChanging]_vars

(***************************************************************************)
(* Utility functions, called once on arguments drawn from bounded sets:    *)
(* arg holds the arguments, ret the result once the call has returned.     *)
(* A Python list is a sequence; None, where a list is expected, is None.   *)
(***************************************************************************)

Range(seq) == {seq[i] : i \in 1..Len(seq)}

SeqsUpTo(S, n) == UNION {[1..k -> S] : k \in 0..n}

\* list.index(x): the position, counted from 0, of the first element equal
\* to x (the caller has made sure there is one)
ListIndex(list, x) ==
    (CHOOSE i \in 1..Len(list) :
        list[i] = x /\ \A j \in 1..(i - 1) : list[j] # x) - 1

\* list.remove(x): the list without the first element equal to x
ListRemove(list, x) ==
    LET i == ListIndex(list, x) + 1
    IN  SubSeq(list, 1, i - 1) \o SubSeq(list, i + 1, Len(list))

(***************************************************************************)
(* main.get_stages_todo                                                    *)
(***************************************************************************)

\* the longest ordered_stages list and the longest extra_stages list drawn
MaxStages == 3

MaxExtraStages == 2

\* dotted names of stages, as the settings give them
StageNames == {"trim.Trimmer", "bias.BiasSubtractor", "dark.DarkSubtractor"}

\* last_stage=None
NoStage == "None"

\* import_utils.import_attribute: the class a dotted name denotes
import_attribute(stage) == [class |-> stage]

\* [import_utils.import_attribute(stage) for stage in stages]
ImportAll(stages) == [i \in 1..Len(stages) |-> import_attribute(stages[i])]

\* last_index, mutated: the `+ 1` is missing
LastIndexExclusive(ordered_stages, last_stage) ==
    IF last_stage = NoStage THEN Len(ordered_stages)
    ELSE ListIndex(ordered_stages, last_stage)

\* last_index, the end of the slice ordered_stages[:last_index]; None slices
\* to the end of the list
LastIndex(ordered_stages, last_stage) ==
    IF last_stage = NoStage THEN Len(ordered_stages)
    ELSE ListIndex(ordered_stages, last_stage) + 1

get_stages_todo(ordered_stages, last_stage, extra_stages) ==
    LET extra == IF extra_stages = None THEN <<>> ELSE extra_stages
    IN  IF last_stage # NoStage /\ last_stage \notin Range(ordered_stages)
        THEN \* ordered_stages.index(last_stage): ValueError
             [result |-> "raise"]
        ELSE [result |-> "returned",
              value |-> ImportAll(SubSeq(ordered_stages, 1,
                                         LastIndex(ordered_stages, last_stage)))
                        \o ImportAll(extra)]

StagesArgs ==
    [fn : {"get_stages_todo"},
     ordered_stages : SeqsUpTo(StageNames, MaxStages),
     last_stage : StageNames \cup {NoStage},
     extra_stages : SeqsUpTo(StageNames, MaxExtraStages) \cup {None}]

GetStagesTodo ==
    /\ arg.fn = "get_stages_todo"
    /\ ret = NoRet
    /\ ret' = get_stages_todo(arg.ordered_stages, arg.last_stage, arg.extra_stages)
    /\ UNCHANGED <<listenerVars, arg, job, proc>>

(***************************************************************************)
(* image_utils.make_image_path_list.  A directory is the list of the names *)
(* of its files in the order the file system yields them; raw_path is the  *)
(* directory or the name of one file.                                      *)
(***************************************************************************)

\* the most files in the directory
MaxDirFiles == 4

DotFz == <<".", "f", "z">>

\* raw_path naming the directory
Dir == <<"d">>

\* a.fits, a.fits.fz, b.fits, b.fits.fz, c.txt
DirNames ==
    {FitsPath, FitsPath \o DotFz,
     SubSeq(FzPath, 1, Len(FzPath) - Len(DotFz)), FzPath,
     TxtPath}

\* the directories: lists of distinct names
Listings ==
    {l \in SeqsUpTo(DirNames, MaxDirFiles) :
        \A i, j \in 1..Len(l) : i # j => l[i] # l[j]}

\* glob(os.path.join(raw_path, '*' + suffix))
Glob(listing, suffix) == SelectSeq(listing, LAMBDA f : EndsWith(f, suffix))

\* f[:-3], mutated: f[:-2]
AllButLastTwo(f) == SubSeq(f, 1, Len(f) - 2)

\* f[:-3]
AllButLastThree(f) == SubSeq(f, 1, Len(f) - 3)

\* the loop that fills fz_files_to_remove
FzFilesToRemove(fz_files, fits_files) ==
    SelectSeq(fz_files, LAMBDA f : AllButLastThree(f) \in Range(fits_files))

\* for f in to_remove: list.remove(f)
RECURSIVE RemoveEach(_, _)
RemoveEach(list, to_remove) ==
    IF to_remove = <<>> THEN list
    ELSE RemoveEach(ListRemove(list, Head(to_remove)), Tail(to_remove))

make_image_path_list(raw_path, listing) ==
    IF raw_path = Dir
    THEN LET fits_files == Glob(listing, DotFits)
             fz_files == Glob(listing, DotFitsFz)
         IN  fits_files
             \o RemoveEach(fz_files, FzFilesToRemove(fz_files, fits_files))
    ELSE \* glob(raw_path): the file, when there is one of this name
         SelectSeq(listing, LAMBDA f : f = raw_path)

PathListArgs ==
    [fn : {"make_image_path_list"},
     raw_path : {Dir} \cup DirNames,
     listing : Listings]

MakeImagePathList ==
    /\ arg.fn = "make_image_path_list"
    /\ ret = NoRet
    /\ ret' = [result |-> "returned",
               value |-> make_image_path_list(arg.raw_path, arg.listing)]
    /\ UNCHANGED <<listenerVars, arg, job, proc>>

(***************************************************************************)
(* image_utils.check_image_homogeneity.  A frame is a record of its        *)
(* attributes; getattr(image, attribute) is image[attribute].              *)
(***************************************************************************)

\* the most frames in a batch
MaxBatch == 2

\* the most extra attributes given
MaxGroupBy == 2

\* attribute_list = ['nx', 'ny', 'site', 'camera']
BaseAttributes == <<"nx", "ny", "site", "camera">>

\* the attributes named in settings.GROUP_BY_ATTRIBUTES
GroupByAttributes == {"ccdsum", "filter"}

BaseFrame ==
    [nx |-> "4096", ny |-> "4096", site |-> "ogg", camera |-> "fl01",
     ccdsum |-> "1 1", filter |-> "V"]

\* another value of each attribute
OtherValue ==
    [nx |-> "2048", ny |-> "2048", site |-> "lsc", camera |-> "kb27",
     ccdsum |-> "2 2", filter |-> "B"]

\* the frames: the base frame, and the frames that differ from it in one
\* attribute
BatchFrames ==
    {BaseFrame} \cup {[BaseFrame EXCEPT ![a] = OtherValue[a]] : a \in DOMAIN BaseFrame}

\* len(set([getattr(image, attribute) for image in images])) > 1
Inhomogeneous(images, attribute) ==
    Cardinality({images[i][attribute] : i \in 1..Len(images)}) > 1

\* 'Images have different {0}s'.format(attribute)
InhomogeneousMessage(attribute) == <<"Images have different ", attribute, "s">>

\* attribute_list, mutated: the extra attributes are not added
AttributeListBaseOnly(group_by_attributes) == BaseAttributes

\* attribute_list, a new list, extended by the extra attributes when given
AttributeList(group_by_attributes) ==
    IF group_by_attributes = None THEN BaseAttributes
    ELSE BaseAttributes \o group_by_attributes

\* the result, the message of the exception raised by the first attribute of
\* the list on which the frames differ, and the caller's list afterwards
check_image_homogeneity(images, group_by_attributes) ==
    LET attribute_list == AttributeList(group_by_attributes)
        differing == {i \in 1..Len(attribute_list) :
                         Inhomogeneous(images, attribute_list[i])}
    IN  IF differing = {}
        THEN [result |-> "returned", message |-> <<>>,
              group_by_attributes |-> group_by_attributes]
        ELSE [result |-> "raise",
              message |-> InhomogeneousMessage(
                  attribute_list[CHOOSE i \in differing :
                                     \A j \in differing : i <= j]),
              group_by_attributes |-> group_by_attributes]

HomogeneityArgs ==
    [fn : {"check_image_homogeneity"},
     images : SeqsUpTo(BatchFrames, MaxBatch),
     group_by_attributes : SeqsUpTo(GroupByAttributes, MaxGroupBy) \cup {None}]

CheckImageHomogeneity ==
    /\ arg.fn = "check_image_homogeneity"
    /\ ret = NoRet
    /\ ret' = check_image_homogeneity(arg.images, arg.group_by_attributes)
    /\ UNCHANGED <<listenerVars, arg, job, proc>>

(***************************************************************************)
(* image_utils.select_images.  disk gives what each file holds, ledger the *)
(* record of each path when the selection starts; the files belong to one  *)
(* camera.                                                                 *)
(***************************************************************************)

\* the longest image_list
MaxList == 2

SelectPaths == {FitsPath, FzPath}

SelectContents == {"raw00", "red91", "corrupt"}

\* image_type=None
NoType == "None"

SelectTypes == {NoType, "EXPOSE", "BIAS"}

\* records the listeners leave behind: none, a fresh one, one of a success,
\* one with every try used
SelectRecs ==
    {NoRec,
     [checksum |-> GetMd5("red91"), tries |-> 0, success |-> FALSE],
     [checksum |-> GetMd5("red91"), tries |-> 1, success |-> TRUE],
     [checksum |-> GetMd5("red91"), tries |-> DefaultMaxTries, success |-> FALSE]}

\* (image_type is None or get_obstype(header) == image_type), mutated: the
\* observation type is not compared
TypeMatchesAny(image_type, header) == TRUE

\* (image_type is None or get_obstype(header) == image_type)
TypeMatches(image_type, header) ==
    image_type = NoType \/ get_obstype(header) = image_type

\* the body of the loop for one filename: whether it is appended, and the
\* record of the path afterwards.  An exception is caught and logged, and
\* the filename is not appended.
SelectOne(filename, content, instrument, rec, image_type, ignore_schedulability) ==
    LET header == GetPrimaryHeader(content)
        out == need_to_process_image(filename, content, instrument, rec,
                                     ignore_schedulability, DefaultMaxTries)
    IN  IF out.result = "raise"
        THEN [appended |-> FALSE, raised |-> TRUE, rec |-> out.rec]
        ELSE LET should_process1 == out.result = "true"
                 should_process2 == should_process1 /\ TypeMatches(image_type, header)
             IN  IF ignore_schedulability
                 THEN [appended |-> should_process2, raised |-> FALSE,
                       rec |-> out.rec]
                 ELSE IF instrument = InstrumentValueError
                      THEN \* dbs.get_instrument: ValueError
                           [appended |-> FALSE, raised |-> TRUE,
                            rec |-> out.rec]
                      ELSE [appended |-> should_process2 /\ instrument.schedulable,
                            raised |-> FALSE, rec |-> out.rec]

\* the loop over image_list, mutated: there is no try block, the exception
\* of a candidate ends select_images
RECURSIVE SelectLoopAborting(_, _, _, _)
SelectLoopAborting(a, n, images, led) ==
    IF n > Len(a.image_list)
    THEN [result |-> "returned", value |-> images, ledger |-> led,
          evaluated |-> n - 1]
    ELSE LET filename == a.image_list[n]
             one == SelectOne(filename, a.disk[filename], a.instrument,
                              led[filename], a.image_type,
                              a.ignore_schedulability)
         IN  IF one.raised
             THEN [result |-> "raise", value |-> images,
                   ledger |-> [led EXCEPT ![filename] = one.rec],
                   evaluated |-> n]
             ELSE SelectLoopAborting(a, n + 1,
                        IF one.appended THEN Append(images, filename) ELSE images,
                        [led EXCEPT ![filename] = one.rec])

\* the loop over image_list from position n on, with `images` and the ledger
\* as they are then
RECURSIVE SelectLoop(_, _, _, _)
SelectLoop(a, n, images, led) ==
    IF n > Len(a.image_list)
    THEN [result |-> "returned", value |-> images, ledger |-> led,
          evaluated |-> n - 1]
    ELSE LET filename == a.image_list[n]
             one == SelectOne(filename, a.disk[filename], a.instrument,
                              led[filename], a.image_type,
                              a.ignore_schedulability)
         IN  SelectLoop(a, n + 1,
                        IF one.appended THEN Append(images, filename) ELSE images,
                        [led EXCEPT ![filename] = one.rec])

select_images(a) == SelectLoop(a, 1, <<>>, a.ledger)

\* the files that are not listed are left out of account
SelectArgs ==
    {a \in [fn : {"select_images"},
            image_list : SeqsUpTo(SelectPaths, MaxList),
            disk : [SelectPaths -> SelectContents],
            ledger : [SelectPaths -> SelectRecs],
            instrument : Instruments,
            image_type : SelectTypes,
            ignore_schedulability : BOOLEAN] :
        \A p \in SelectPaths \ Range(a.image_list) :
            a.disk[p] = "red91" /\ a.ledger[p] = NoRec}

SelectImages ==
    /\ arg.fn = "select_images"
    /\ ret = NoRet
    /\ ret' = select_images(arg)
    /\ UNCHANGED <<listenerVars, arg, job, proc>>

(***************************************************************************)
(* image_utils.get_configuration_mode.  A header value is a str or an int: *)
(* a record of its type, its characters and its number.  A header is a     *)
(* function from the keys that are present to their values.                *)
(***************************************************************************)

PyStr(chars) == [type |-> "str", chars |-> chars, int |-> 0]

PyInt(n) == [type |-> "int", chars |-> <<>>, int |-> n]

\* the values CONFMODE is given: N/A, n/a, 0 as a str, normal in three
\* spellings, default, two readout modes, the empty str, and the ints 0 and 1
ConfModes ==
    {PyStr(<<"N", "/", "A">>), PyStr(<<"n", "/", "a">>), PyStr(<<"0">>),
     PyStr(<<"n", "o", "r", "m", "a", "l">>), PyStr(<<"N", "o", "r", "m", "a", "l">>), PyStr(<<"N", "O", "R", "M", "A", "L">>),
     PyStr(<<"d", "e", "f", "a", "u", "l", "t">>), PyStr(<<"f", "u", "l", "l", "_", "f", "r", "a", "m", "e">>), PyStr(<<"c", "e", "n", "t", "r", "a", "l", "_", "2", "k", "_", "2", "x", "2">>),
     PyStr(<<>>), PyInt(0), PyInt(1)}

\* str.lower() on one character, mutated: the character itself
LowerCharSame(c) == c

\* str.lower() on one character
LowerChar(c) ==
    CASE c = "A" -> "a" [] c = "L" -> "l" [] c = "M" -> "m"
      [] c = "N" -> "n" [] c = "O" -> "o" [] c = "R" -> "r"
      [] OTHER -> c

\* str.lower()
Lower(chars) == [i \in 1..Len(chars) |-> LowerChar(chars[i])]

\* header.get('CONFMODE', 'default')
HeaderGetConfMode(header) ==
    IF "CONFMODE" \in DOMAIN header THEN header["CONFMODE"]
    ELSE PyStr(<<"d", "e", "f", "a", "u", "l", "t">>)

\* the result, the value returned and the header afterwards; an int has no
\* method lower: AttributeError
get_configuration_mode(header) ==
    LET configuration_mode == HeaderGetConfMode(header)
        IsNA == configuration_mode = PyStr(<<"N", "/", "A">>)
        IsZero == configuration_mode = PyInt(0)
    IN  IF ~IsNA /\ ~IsZero /\ configuration_mode.type # "str"
        THEN [result |-> "raise", header |-> header]
        ELSE LET normalized ==
                     IF \/ IsNA
                        \/ IsZero
                        \/ Lower(configuration_mode.chars) = <<"n", "o", "r", "m", "a", "l">>
                     THEN PyStr(<<"d", "e", "f", "a", "u", "l", "t">>)
                     ELSE configuration_mode
             IN  [result |-> "returned",
                  value |-> normalized,
                  header |-> [k \in DOMAIN header \cup {"CONFMODE"} |->
                                 IF k = "CONFMODE" THEN normalized ELSE header[k]]]

\* headers with and without CONFMODE
ConfModeHeaders ==
    {[k \in {"OBSTYPE"} |-> PyStr(<<"B", "I", "A", "S">>)]}
    \cup {[k \in {"OBSTYPE", "CONFMODE"} |->
             IF k = "CONFMODE" THEN m ELSE PyStr(<<"B", "I", "A", "S">>)] : m \in ConfModes}
    \cup {[k \in {"CONFMODE"} |-> m] : m \in ConfModes}

ConfModeArgs == [fn : {"get_configuration_mode"}, header : ConfModeHeaders]

GetConfigurationMode ==
    /\ arg.fn = "get_configuration_mode"
    /\ ret = NoRet
    /\ ret' = get_configuration_mode(arg.header)
    /\ UNCHANGED <<listenerVars, arg, job, proc>>

(***************************************************************************)
(* realtime_utils.increment_try_number and set_file_as_processed, called   *)
(* on a path whose record is arg.rec (NoRec: the ledger has none)          *)
(***************************************************************************)

MutatorRecs ==
    {NoRec}
    \cup [checksum : {NoSum, GetMd5("red91")},
          tries : 0..DefaultMaxTries,
          success : BOOLEAN]

MutatorArgs ==
    [fn : {"increment_try_number", "set_file_as_processed"}, rec : MutatorRecs]

IncrementTry ==
    /\ arg.fn = "increment_try_number"
    /\ ret = NoRet
    /\ ret' = [result |-> "returned", rec |-> IncrementTryNumber(arg.rec)]
    /\ UNCHANGED <<listenerVars, arg, job, proc>>

SetProcessed ==
    /\ arg.fn = "set_file_as_processed"
    /\ ret = NoRet
    /\ ret' = [result |-> "returned", rec |-> SetFileAsProcessed(arg.rec)]
    /\ UNCHANGED <<listenerVars, arg, job, proc>>

(***************************************************************************)
(* main.run: the reduction of one frame.  job.image is the frame in hand   *)
(* (NoFrame is None), job.ran the calls of stages made so far with what    *)
(* each was given and how it ended, job.written the frames written,        *)
(* job.preview_mode the preview_mode of the runtime context.               *)
(***************************************************************************)

\* settings.Imaging.ORDERED_STAGES
ORDERED_STAGES ==
    <<"bpm.BPMUpdater", "qc.HeaderSanity", "qc.ThousandsTest",
      "qc.SaturationTest", "bias.OverscanSubtractor",
      "crosstalk.CrosstalkCorrector", "gain.GainNormalizer",
      "mosaic.MosaicCreator", "trim.Trimmer", "bias.BiasSubtractor",
      "dark.DarkSubtractor", "flats.FlatDivider", "qc.PatternNoiseDetector",
      "photometry.SourceDetector", "astrometry.WCSSolver",
      "qc.pointing.PointingTest">>

\* the observation types of the frames read: the calibration types, and one
\* that has no configured last stage
RunTypes == {"BIAS", "DARK", "SKYFLAT", "GUIDE"}

CalibrationTypes == {"BIAS", "DARK", "SKYFLAT"}

\* settings.LAST_STAGE[obstype], mutated: BIAS_LAST_STAGE is
\* bias.BiasSubtractor
LastStageOfBiasLate(obstype) ==
    CASE obstype = "BIAS"    -> "bias.BiasSubtractor"
      [] obstype = "DARK"    -> "bias.BiasSubtractor"
      [] obstype = "SKYFLAT" -> "dark.DarkSubtractor"

\* settings.LAST_STAGE[obstype], for a calibration type
LastStageOf(obstype) ==
    CASE obstype = "BIAS"    -> "trim.Trimmer"
      [] obstype = "DARK"    -> "bias.BiasSubtractor"
      [] obstype = "SKYFLAT" -> "dark.DarkSubtractor"

\* settings.EXTRA_STAGES[obstype], for a calibration type
ExtraStagesOf(obstype) ==
    CASE obstype = "BIAS"    -> <<"bias.BiasMasterLevelSubtractor",
                                  "bias.BiasComparer", "bias.BiasMaker">>
      [] obstype = "DARK"    -> <<"dark.DarkNormalizer", "dark.DarkComparer",
                                  "dark.DarkMaker">>
      [] obstype = "SKYFLAT" -> <<"flats.FlatNormalizer",
                                  "qc.PatternNoiseDetector",
                                  "flats.FlatComparer", "flats.FlatMaker">>

\* settings.Imaging.*_EXTRA_STAGES_PREVIEW, for a calibration type
PreviewExtraStagesOf(obstype) ==
    CASE obstype = "BIAS"    -> <<"bias.BiasMasterLevelSubtractor",
                                  "bias.BiasComparer">>
      [] obstype = "DARK"    -> <<"dark.DarkNormalizer", "dark.DarkComparer">>
      [] obstype = "SKYFLAT" -> <<"flats.FlatNormalizer",
                                  "qc.PatternNoiseDetector",
                                  "flats.FlatComparer">>

\* None where a frame is expected
NoFrame == [obstype |-> "None", applied |-> <<>>]

\* the frame read from a file of the observation type
FrameOf(obstype) == [obstype |-> obstype, applied |-> <<>>]

\* stage_to_run.run(image): what a stage may do with what it is given.  Given
\* a frame it returns the frame transformed, returns None to stop the
\* reduction, or raises; given None it returns None or raises.
StageOutcomes(image) ==
    IF image = NoFrame THEN {"none", "raise"} ELSE {"frame", "none", "raise"}

\* the value of `image` after the stage returned
StageResult(stage, image, outcome) ==
    IF outcome = "frame"
    THEN [image EXCEPT !.applied = Append(@, stage.class)]
    ELSE NoFrame

\* the loop `for stage in stages_to_do`, mutated: the first stage of the list
\* is never run
StagesLeftSkipping(j) == SubSeq(j.stages, j.i + 2, Len(j.stages))

\* the stages the loop `for stage in stages_to_do` has still to run
StagesLeft(j) == SubSeq(j.stages, j.i + 1, Len(j.stages))

\* image = read_image(...); stages_to_do = get_stages_todo(...)
ReadImage ==
    /\ job.pc = "read"
    /\ \E image \in {FrameOf(t) : t \in RunTypes} \cup {NoFrame} :
         job' = IF image = NoFrame \/ image.obstype \notin CalibrationTypes
                THEN \* None.obstype: AttributeError; LAST_STAGE[...]: KeyError
                     [job EXCEPT !.pc = "raised", !.image = image]
                ELSE [job EXCEPT
                        !.pc = "stages",
                        !.image = image,
                        !.stages = get_stages_todo(ORDERED_STAGES,
                                                   LastStageOf(image.obstype),
                                                   ExtraStagesOf(image.obstype)).value]
    /\ UNCHANGED <<listenerVars, arg, ret, proc>>

\* stage_to_run = stage(runtime_context); image = stage_to_run.run(image)
RunStage ==
    /\ job.pc = "stages"
    /\ StagesLeft(job) # <<>>
    /\ \E outcome \in StageOutcomes(job.image) :
         LET stage == Head(StagesLeft(job))
         IN  job' = [job EXCEPT
                       !.i = @ + 1,
                       !.image = StageResult(stage, job.image, outcome),
                       !.ran = Append(@, [stage |-> stage.class,
                                          given |-> job.image,
                                          outcome |-> outcome]),
                       !.pc = IF outcome = "raise" THEN "raised" ELSE "stages"]
    /\ UNCHANGED <<listenerVars, arg, ret, proc>>

\* after the loop: `if image is None: ... return`, else image.write(...)
Finish ==
    /\ job.pc = "stages"
    /\ StagesLeft(job) = <<>>
    /\ job' = [job EXCEPT
                 !.pc = "returned",
                 !.written = IF job.image = NoFrame THEN @
                             ELSE Append(@, job.image)]
    /\ UNCHANGED <<listenerVars, arg, ret, proc>>

InitRun ==
    /\ ListenersInit({}, {[ignore_schedulability |-> FALSE,
                           max_tries |-> DefaultMaxTries]})
    /\ arg = NoArg
    /\ ret = NoRet
    /\ proc = NoProc
    /\ \E preview_mode \in BOOLEAN :
         job = [pc |-> "read", preview_mode |-> preview_mode,
                image |-> NoFrame, stages |-> <<>>, i |-> 0,
                ran |-> <<>>, written |-> <<>>]

NextRun ==
    \/ ReadImage
    \/ RunStage
    \/ Finish

SpecRun == InitRun /\ [][NextRun]_vars

(***************************************************************************)
(* image_utils.read_image.  arg.file tells what the frame class and munge  *)
(* do with the file: "frame" (a frame with its instrument), "no_instrument"*)
(* (a frame whose instrument attribute is None), "unreadable" (the         *)
(* constructor raises), "unmungeable" (munge raises).                      *)
(***************************************************************************)

ReadFiles ==
    [kind : {"frame", "no_instrument", "unreadable", "unmungeable"},
     obstype : {"BIAS", "SKYFLAT"}]

\* the exception classes that `except Exception` catches
ExceptionClasses == {"Exception", "IOError", "ValueError"}

\* what the body of the try block raises, "none" when it reaches its return
ReadImageRaises(file) ==
    CASE file.kind = "unreadable"    -> "Exception"
      [] file.kind = "no_instrument" -> "IOError"
      [] file.kind = "unmungeable"   -> "Exception"
      [] OTHER                       -> "none"

\* the error messages logged by read_image
ReadImageLogged(file) ==
    (IF file.kind = "no_instrument"
     THEN <<"Image instrument attribute is None, aborting">>
     ELSE <<>>)
    \o (IF ReadImageRaises(file) \in ExceptionClasses
        THEN <<"Error loading image">>
        ELSE <<>>)

\* image_utils.read_image(filename, runtime_context)
read_image(file) ==
    LET raised == ReadImageRaises(file)
    IN  IF raised = "none"
        THEN [result |-> "returned", value |-> FrameOf(file.obstype),
              logged |-> ReadImageLogged(file)]
        ELSE IF raised \in ExceptionClasses
        THEN \* the except block ends without a return: None
             [result |-> "returned", value |-> NoFrame,
              logged |-> ReadImageLogged(file)]
        ELSE [result |-> "raise", exception |-> raised,
              logged |-> ReadImageLogged(file)]

ReadImageArgs == [fn : {"read_image"}, file : ReadFiles]

CallReadImage ==
    /\ arg.fn = "read_image"
    /\ ret = NoRet
    /\ ret' = read_image(arg.file)
    /\ UNCHANGED <<listenerVars, arg, job, proc>>

(***************************************************************************)
(* main.run_master_maker on the files arg.files.  arg.stacker tells        *)
(* whether the stacking stage returns or raises, arg.masters the frames it *)
(* returns.                                                                *)
(***************************************************************************)

MaxMasterFiles == 2

MaxMasters == 2

\* settings.CALIBRATION_STACKER_STAGE[frame_type]
StackerOf(frame_type) ==
    CASE frame_type = "BIAS"    -> "bias.BiasMaker"
      [] frame_type = "DARK"    -> "dark.DarkMaker"
      [] frame_type = "SKYFLAT" -> "flats.FlatMaker"

\* the master frames a stacking stage may return, one per group of the batch
MastersReturned(frame_type) ==
    {[k \in 1..n |-> [obstype |-> frame_type,
                      applied |-> <<StackerOf(frame_type)>>,
                      group |-> k]] : n \in 0..MaxMasters}

\* main.run_master_maker(image_path_list, runtime_context, frame_type)
run_master_maker(a) ==
    LET reads == [k \in 1..Len(a.files) |-> read_image(a.files[k])]
        stage_to_run == import_attribute(StackerOf(a.frame_type))
    IN  IF \E k \in 1..Len(reads) : reads[k].result = "raise"
        THEN [result |-> "raise", executed |-> <<>>, written |-> <<>>]
        ELSE LET images == [k \in 1..Len(reads) |-> reads[k].value]
                 call_ == [stage |-> stage_to_run.class, given |-> images]
             IN  IF a.stacker = "raises"
                 THEN [result |-> "raise", executed |-> <<call_>>,
                       written |-> <<>>]
                 ELSE [result |-> "returned", executed |-> <<call_>>,
                       written |-> a.masters]

MasterMakerArgs ==
    UNION {[fn : {"run_master_maker"},
            frame_type : {t},
            files : SeqsUpTo({f \in ReadFiles : f.obstype = t}, MaxMasterFiles),
            stacker : {"returns", "raises"},
            masters : MastersReturned(t)] : t \in {"BIAS", "SKYFLAT"}}

RunMasterMaker ==
    /\ arg.fn = "run_master_maker"
    /\ ret = NoRet
    /\ ret' = run_master_maker(arg)
    /\ UNCHANGED <<listenerVars, arg, job, proc>>

(***************************************************************************)
(* main.process_master_maker.  arg.files is what the query for the         *)
(* individual calibration images of the instrument returns.                *)
(***************************************************************************)

\* main.process_master_maker(runtime_context, instrument, frame_type, ...)
process_master_maker(a) ==
    LET image_path_list == a.files
        found == IF Len(image_path_list) = 0
                 THEN <<"No calibration frames found to stack">>
                 ELSE <<>>
        made == run_master_maker(a)
    IN  [result |-> "returned",
         logged |-> <<"Making master frames">> \o found
                    \o (IF made.result = "raise" THEN <<"exception">> ELSE <<>>)
                    \o <<"Finished">>,
         executed |-> made.executed,
         written |-> made.written]

ProcessMasterMakerArgs ==
    {[a EXCEPT !.fn = "process_master_maker"] : a \in MasterMakerArgs}

ProcessMasterMaker ==
    /\ arg.fn = "process_master_maker"
    /\ ret = NoRet
    /\ ret' = process_master_maker(arg)
    /\ UNCHANGED <<listenerVars, arg, job, proc>>

(***************************************************************************)
(* main.process_directory on the directory arg.listing.  arg.outcome tells *)
(* how run(image_path, runtime_context) ends on each file.                 *)
(***************************************************************************)

\* the loop `for image_type in image_types`: images_to_reduce and the ledger
\* after the types from position k on
RECURSIVE SelectEachType(_, _, _, _, _)
SelectEachType(a, image_path_list, k, images_to_reduce, led) ==
    IF k > Len(a.image_types)
    THEN [value |-> images_to_reduce, ledger |-> led]
    ELSE LET selected ==
                 select_images([image_list |-> image_path_list,
                                disk |-> a.disk,
                                ledger |-> led,
                                instrument |-> a.instrument,
                                image_type |-> a.image_types[k],
                                ignore_schedulability |-> a.ignore_schedulability])
         IN  SelectEachType(a, image_path_list, k + 1,
                            images_to_reduce \o selected.value,
                            selected.ledger)

\* the loop `for image_path in images_to_reduce`, mutated: run is called
\* outside a try block
RECURSIVE RunEachUnguarded(_, _, _, _)
RunEachUnguarded(a, images_to_reduce, n, calls) ==
    IF n > Len(images_to_reduce)
    THEN [result |-> "returned", calls |-> calls]
    ELSE LET image_path == images_to_reduce[n]
             made == Append(calls, [image_path |-> image_path,
                                    outcome |-> a.outcome[image_path]])
         IN  IF a.outcome[image_path] = "raise"
             THEN [result |-> "raise", calls |-> made]
             ELSE RunEachUnguarded(a, images_to_reduce, n + 1, made)

\* the loop `for image_path in images_to_reduce`: the calls of run made, each
\* in a try block whose handler logs the exception
RECURSIVE RunEach(_, _, _, _)
RunEach(a, images_to_reduce, n, calls) ==
    IF n > Len(images_to_reduce)
    THEN [result |-> "returned", calls |-> calls]
    ELSE LET image_path == images_to_reduce[n]
         IN  RunEach(a, images_to_reduce, n + 1,
                     Append(calls, [image_path |-> image_path,
                                    outcome |-> a.outcome[image_path]]))

\* main.process_directory(runtime_context, raw_path, image_types)
process_directory(a) ==
    LET image_path_list == make_image_path_list(a.raw_path, a.listing)
        selection == SelectEachType(a, image_path_list, 1, <<>>, a.ledger)
        runs_ == RunEach(a, selection.value, 1, <<>>)
    IN  [result |-> runs_.result,
         images_to_reduce |-> selection.value,
         calls |-> runs_.calls,
         ledger |-> selection.ledger]

ProcessDirectoryArgs ==
    {a \in [fn : {"process_directory"},
            raw_path : {Dir},
            listing : {l \in SeqsUpTo(SelectPaths, MaxList) :
                          \A i, j \in 1..Len(l) : i # j => l[i] # l[j]},
            disk : [SelectPaths -> SelectContents],
            ledger : [SelectPaths -> {NoRec}],
            instrument : Instruments,
            \* image_types=None is replaced by [None]
            image_types : {<<NoType>>, <<"EXPOSE">>, <<"BIAS", "EXPOSE">>},
            ignore_schedulability : BOOLEAN,
            outcome : [SelectPaths -> {"returned", "raise"}]] :
        \A p \in SelectPaths \ Range(a.listing) :
            a.disk[p] = "red91" /\ a.outcome[p] = "returned"}

ProcessDirectory ==
    /\ arg.fn = "process_directory"
    /\ ret = NoRet
    /\ ret' = process_directory(arg)
    /\ UNCHANGED <<listenerVars, arg, job, proc>>

(***************************************************************************)
(* main.run_easy_process_directory: the loop over the instruments of the   *)
(* night.  arg.instruments are the cameras selected, arg.raising the calls *)
(* of reduce_directory and process_master_maker that raise.                *)
(***************************************************************************)

\* the most instruments of a site
MaxInstruments == 2

\* the most calls that raise in one night
MaxRaising == 2

\* for image_type in ['BIAS', 'DARK', 'SKYFLAT']
CalibrationImageTypes == <<"BIAS", "DARK", "SKYFLAT">>

\* the calls made in the body of `for image_type in [...]`
CalibrationCalls(instrument, image_type) ==
    <<[instrument |-> instrument, fn |-> "reduce_directory",
       image_types |-> <<image_type>>],
      [instrument |-> instrument, fn |-> "process_master_maker",
       image_types |-> <<image_type>>]>>

\* the calls made in the body of `for instrument in instruments`
RECURSIVE InstrumentCalls(_, _)
InstrumentCalls(instrument, k) ==
    IF k > Len(CalibrationImageTypes)
    THEN <<[instrument |-> instrument, fn |-> "reduce_directory",
            image_types |-> <<"EXPOSE", "STANDARD">>]>>
    ELSE CalibrationCalls(instrument, CalibrationImageTypes[k])
         \o InstrumentCalls(instrument, k + 1)

\* the calls of the whole loop, were none to raise
RECURSIVE NightCalls(_, _)
NightCalls(instruments, n) ==
    IF n > Len(instruments) THEN <<>>
    ELSE InstrumentCalls(instruments[n], 1) \o NightCalls(instruments, n + 1)

\* the calls made, mutated: no call stands in a try block
RECURSIVE MakeCallsUnguarded(_, _, _, _)
MakeCallsUnguarded(a, calls, n, made) ==
    IF n > Len(calls)
    THEN [result |-> "returned", calls |-> made, logged |-> 0]
    ELSE IF calls[n] \in a.raising
         THEN [result |-> "raise",
               calls |-> Append(made, [call |-> calls[n], outcome |-> "raise"]),
               logged |-> 0]
         ELSE MakeCallsUnguarded(a, calls, n + 1,
                  Append(made, [call |-> calls[n], outcome |-> "returned"]))

\* the calls made: each stands in its own try block whose handler logs the
\* exception
RECURSIVE MakeCalls(_, _, _, _)
MakeCalls(a, calls, n, made) ==
    IF n > Len(calls)
    THEN [result |-> "returned", calls |-> made,
          logged |-> Cardinality({k \in 1..Len(made) :
                                     made[k].outcome = "raise"})]
    ELSE MakeCalls(a, calls, n + 1,
             Append(made, [call |-> calls[n],
                           outcome |-> IF calls[n] \in a.raising
                                       THEN "raise" ELSE "returned"]))

run_easy_process_directory(a) ==
    MakeCalls(a, NightCalls(a.instruments, 1), 1, <<>>)

NightArgs ==
    UNION {[fn : {"run_easy_process_directory"},
            instruments : {l},
            raising : {r \in SUBSET Range(NightCalls(l, 1)) :
                          Cardinality(r) <= MaxRaising}] :
           l \in {c \in SeqsUpTo({"kb01", "fl02", "fs03"}, MaxInstruments) :
                      \A i, j \in 1..Len(c) : i # j => c[i] # c[j]}}

RunEasyProcessDirectory ==
    /\ arg.fn = "run_easy_process_directory"
    /\ ret = NoRet
    /\ ret' = run_easy_process_directory(arg)
    /\ UNCHANGED <<listenerVars, arg, job, proc>>

(***************************************************************************)
(* main.run_individual_listener: one listener process and its connection   *)
(* to the broker.  proc.pc is "run" inside listener.run(), "errback"       *)
(* inside on_connection_error, "handler" inside the except block of        *)
(* run_individual_listener, "exited" when the process has ended;           *)
(* proc.retries counts the retries of the ensure_connection under way,     *)
(* proc.consumed the messages consumed, proc.reconnected tells that the    *)
(* latest ensure_connection connected.                                     *)
(***************************************************************************)

\* ensure_connection(max_retries=10)
MaxRetries == 10

\* the most messages a listener consumes
MaxConsumed == 2

\* listener.run() consumes a message from the queue
Consume ==
    /\ proc.pc = "run"
    /\ proc.broker = "up"
    /\ proc.consumed < MaxConsumed
    /\ proc' = [proc EXCEPT !.consumed = @ + 1]
    /\ UNCHANGED <<listenerVars, arg, ret, job>>

\* the broker becomes unreachable, or reachable again
BrokerChange ==
    /\ proc.pc \in {"run", "errback", "handler"}
    /\ proc' = [proc EXCEPT !.broker = IF @ = "up" THEN "down" ELSE "up"]
    /\ UNCHANGED <<listenerVars, arg, ret, job>>

\* a connection error inside listener.run(): the consumer calls
\* on_connection_error while it re-establishes the connection, or the error
\* leaves listener.run() and reaches `except listener.connection.connection_errors`
ConnectionLost ==
    /\ proc.pc = "run"
    /\ proc.broker = "down"
    /\ \E reached \in {"errback", "handler"} :
         proc' = [proc EXCEPT !.pc = reached, !.retries = 0,
                              !.reconnected = FALSE]
    /\ UNCHANGED <<listenerVars, arg, ret, job>>

\* where control goes when ensure_connection(max_retries=10) has connected:
\* on_connection_error returns into listener.run(); the except block of
\* run_individual_listener ends, and with it the function
AfterConnected(p) ==
    IF p.pc = "errback"
    THEN [p EXCEPT !.pc = "run", !.reconnected = TRUE]
    ELSE [p EXCEPT !.pc = "exited", !.exit = "returned", !.reconnected = TRUE]

\* where control goes when ensure_connection(max_retries=10) gives up: the
\* connection error leaves on_connection_error and listener.run(), or leaves
\* run_individual_listener
AfterGivingUp(p) ==
    IF p.pc = "errback"
    THEN [p EXCEPT !.pc = "handler", !.retries = 0]
    ELSE [p EXCEPT !.pc = "exited", !.exit = "connection_error"]

\* one attempt of ensure_connection(max_retries=10) to connect
EnsureConnection ==
    /\ proc.pc \in {"errback", "handler"}
    /\ proc' = IF proc.broker = "up" THEN AfterConnected(proc)
               ELSE IF proc.retries < MaxRetries
               THEN [proc EXCEPT !.retries = @ + 1]
               ELSE AfterGivingUp(proc)
    /\ UNCHANGED <<listenerVars, arg, ret, job>>

\* listener.ensure_connection: the listener is a ConsumerMixin, which may
\* have no attribute of this name
NoSuchAttribute ==
    /\ proc.pc = "handler"
    /\ proc.retries = 0
    /\ proc' = [proc EXCEPT !.pc = "exited", !.exit = "AttributeError"]
    /\ UNCHANGED <<listenerVars, arg, ret, job>>

\* except KeyboardInterrupt: the listener shuts down
Interrupt ==
    /\ proc.pc = "run"
    /\ proc' = [proc EXCEPT !.pc = "exited", !.exit = "interrupted"]
    /\ UNCHANGED <<listenerVars, arg, ret, job>>

InitListener ==
    /\ ListenersInit({}, {[ignore_schedulability |-> FALSE,
                           max_tries |-> DefaultMaxTries]})
    /\ arg = NoArg
    /\ ret = NoRet
    /\ job = NoJob
    /\ proc = [pc |-> "run", broker |-> "up", retries |-> 0, consumed |-> 0,
               reconnected |-> FALSE, exit |-> "none"]

NextListener ==
    \/ Consume
    \/ BrokerChange
    \/ ConnectionLost
    \/ EnsureConnection
    \/ NoSuchAttribute
    \/ Interrupt

SpecListener == InitListener /\ [][NextListener]_vars

(***************************************************************************)
(* One call of a utility function, no listener running                     *)
(***************************************************************************)

UtilArgs ==
    StagesArgs \cup PathListArgs \cup HomogeneityArgs \cup SelectArgs
    \cup ConfModeArgs \cup MutatorArgs \cup ReadImageArgs
    \cup MasterMakerArgs \cup ProcessDirectoryArgs \cup NightArgs
    \cup ProcessMasterMakerArgs

InitUtils ==
    /\ ListenersInit({}, {[ignore_schedulability |-> FALSE,
                           max_tries |-> DefaultMaxTries]})
    /\ arg \in UtilArgs
    /\ ret = NoRet
    /\ job = NoJob
    /\ proc = NoProc

NextUtils ==
    \/ GetStagesTodo
    \/ MakeImagePathList
    \/ CheckImageHomogeneity
    \/ SelectImages
    \/ GetConfigurationMode
    \/ IncrementTry
    \/ SetProcessed
    \/ CallReadImage
    \/ RunMasterMaker
    \/ ProcessDirectory
    \/ RunEasyProcessDirectory
    \/ ProcessMasterMaker

SpecUtils == InitUtils /\ [][NextUtils]_vars

(***************************************************************************)
(* Properties.  call[l] holds the arguments of the predicate's latest call *)
(* by listener l, with the record of the path before and after it, until   *)
(* the listener leaves the if block; res[l] holds the value returned.      *)
(***************************************************************************)

\* listener l has evaluated the predicate on an announced path
Evaluated(l) == call[l] # NoCall /\ call[l].path \in Paths

CallHeader(l) == GetPrimaryHeader(call[l].content)

\* the specification's conditions 1-3 on the call of l
HeaderConditionsHold(l) ==
    /\ HasFitsExtension(call[l].path)
    /\ CallHeader(l) # NoneHeader
    /\ get_obstype(CallHeader(l)) \in LAST_STAGE

\* the specification's condition 4: only the raw level '00' is accepted
RawLevel(l) == get_reduction_level(CallHeader(l)) = "00"

\* the specification's condition 5
InstrumentConditionHolds(l) ==
    /\ call[l].instrument # InstrumentValueError
    /\ call[l].instrument.passes
    /\ (ctx.ignore_schedulability \/ call[l].instrument.schedulable)

\* a record exists and holds the checksum of the file as it is now
SameChecksum(l) ==
    /\ call[l].before # NoRec
    /\ call[l].before.checksum = GetMd5(call[l].content)

\* C1: with conditions 1-5 holding and the file's checksum equal to the
\* recorded one, tries < max_tries and success = false make the predicate
\* return true.
C1_ProcessWhileTriesBelowMax ==
    \A l \in Listeners :
        ( /\ Evaluated(l)
          /\ HeaderConditionsHold(l)
          /\ RawLevel(l)
          /\ InstrumentConditionHolds(l)
          /\ call[l].instrument.schedulable
          /\ SameChecksum(l)
          /\ call[l].before.tries < ctx.max_tries
          /\ ~call[l].before.success )
        => res[l] = "true"

\* C2: with the file's checksum equal to the recorded one, success = false
\* and tries >= max_tries, the predicate returns false whatever the other
\* conditions are.
C2_NoProcessingAtMaxTries ==
    \A l \in Listeners :
        ( /\ Evaluated(l)
          /\ SameChecksum(l)
          /\ ~call[l].before.success
          /\ call[l].before.tries >= ctx.max_tries )
        => res[l] = "false"

\* reached: an exhausted record of a file that passes every other test of
\* the code, with max_tries at its default
C2_Witness ==
    \E l \in Listeners :
        /\ Evaluated(l)
        /\ SameChecksum(l)
        /\ ~call[l].before.success
        /\ call[l].before.tries = ctx.max_tries
        /\ ctx.max_tries = DefaultMaxTries
        /\ HeaderConditionsHold(l)
        /\ ~ReductionLevelRejected(CallHeader(l))
        /\ InstrumentConditionHolds(l)
        /\ res[l] = "false"

\* C3: with the file's checksum equal to the recorded one and success = true,
\* the predicate returns false for every value of tries.
C3_NoProcessingAfterSuccess ==
    \A l \in Listeners :
        ( /\ Evaluated(l)
          /\ SameChecksum(l)
          /\ call[l].before.success )
        => res[l] = "false"

\* reached: a successful record with tries < max_tries of a file that passes
\* every other test of the code
C3_Witness ==
    \E l \in Listeners :
        /\ Evaluated(l)
        /\ SameChecksum(l)
        /\ call[l].before.success
        /\ call[l].before.tries < ctx.max_tries
        /\ HeaderConditionsHold(l)
        /\ ~ReductionLevelRejected(CallHeader(l))
        /\ InstrumentConditionHolds(l)
        /\ res[l] = "false"

\* C4: with conditions 1-5 holding and the file's checksum different from the
\* recorded one, the predicate returns true whatever tries and success were,
\* and the record then has success = false, tries = 0 and the new checksum.
C4_ChecksumChangeResets ==
    \A l \in Listeners :
        ( /\ Evaluated(l)
          /\ HeaderConditionsHold(l)
          /\ RawLevel(l)
          /\ InstrumentConditionHolds(l)
          /\ call[l].before # NoRec
          /\ call[l].before.checksum # GetMd5(call[l].content) )
        => /\ res[l] = "true"
           /\ call[l].after = [checksum |-> GetMd5(call[l].content),
                               tries |-> 0, success |-> FALSE]

\* C5: a header whose reduction level is '00' (or that has no RLEVEL key)
\* passes the gate, so that a file meeting every other condition is processed;
\* any other reduction level makes the predicate return false.
C5_OnlyRawLevelAccepted ==
    \A l \in Listeners :
        ( Evaluated(l) /\ CallHeader(l) # NoneHeader )
        => /\ ~RawLevel(l) => res[l] = "false"
           /\ ( /\ RawLevel(l)
                /\ HeaderConditionsHold(l)
                /\ InstrumentConditionHolds(l)
                /\ ~SameChecksum(l) )
              => res[l] = "true"

\* C6: when one of conditions 1, 3, 4, 5 fails the predicate returns false
\* and the record of the path is what it was before the call.
C6_ShortCircuitLeavesRecord ==
    \A l \in Listeners :
        ( /\ Evaluated(l)
          /\ CallHeader(l) # NoneHeader
          /\ \/ ~HasFitsExtension(call[l].path)
             \/ get_obstype(CallHeader(l)) \notin LAST_STAGE
             \/ ~RawLevel(l)
             \/ ~InstrumentConditionHolds(l) )
        => /\ res[l] = "false"
           /\ call[l].after = call[l].before
           /\ ledger[call[l].path] = call[l].before

\* C7: on a file from which no primary header can be read the predicate
\* returns false; it does not raise.
C7_NoHeaderReturnsFalse ==
    \A l \in Listeners :
        ( Evaluated(l) /\ CallHeader(l) = NoneHeader ) => res[l] = "false"

\* the events of the message in hand that follow its acknowledgement
Processing == {"check", "incr", "run", "mark", "except"}

\* C8: every message is acknowledged exactly once, before the predicate is
\* evaluated, before the ledger is written and before the pipeline runs, and
\* also when its processing fails, so the broker never holds it for redelivery.
C8_AckFirst ==
    \A l \in Listeners :
        /\ acks[l] <= 1
        /\ Cardinality({i \in DOMAIN trace[l] : trace[l][i] = "ack"}) = acks[l]
        /\ (\E i \in DOMAIN trace[l] : trace[l][i] \in Processing)
              => (acks[l] = 1 /\ trace[l][1] = "ack")
        /\ pc[l] \in {"incr", "run", "mark", "handler", "returned", "crashed"}
              => acks[l] = 1

\* reached: a message whose run raised, acknowledged once, handler returned
C8_Witness ==
    \E l \in Listeners :
        /\ pc[l] = "returned"
        /\ runres[l] = "raised"
        /\ acks[l] = 1
        /\ trace[l] = <<"ack", "check", "incr", "run", "except">>

\* C9: after a true predicate the listener increments the try count, then runs
\* the pipeline, then marks success, the last only if the run returned; after
\* a false predicate it does none of the three.
C9_ProcessingSequence ==
    \A l \in Listeners :
        LET t == trace[l] IN
        /\ \A i \in DOMAIN t :
              /\ t[i] = "incr" => (i > 1 /\ t[i - 1] = "check" /\ res[l] = "true")
              /\ t[i] = "run" => (i > 1 /\ t[i - 1] = "incr")
              /\ t[i] = "mark" => (i > 1 /\ t[i - 1] = "run" /\ runres[l] = "returned")
        /\ \A i, j \in DOMAIN t : (i # j /\ t[i] = t[j]) => t[i] \notin IfBlock
        /\ (pc[l] = "returned" /\ res[l] = "true" /\ runres[l] = "returned")
              => t = <<"ack", "check", "incr", "run", "mark">>
        /\ (pc[l] = "returned" /\ res[l] = "true" /\ runres[l] = "raised")
              => t = <<"ack", "check", "incr", "run", "except">>
        /\ (pc[l] = "returned" /\ res[l] = "false") => t = <<"ack", "check">>

\* reached: a message processed to the end, its record marked successful
C9_Witness ==
    \E l \in Listeners :
        /\ pc[l] = "returned"
        /\ trace[l] = <<"ack", "check", "incr", "run", "mark">>
        /\ ledger[BodyPath(body[l])].success
        /\ ledger[BodyPath(body[l])].tries >= 1

\* C10: on_message returns normally for every message; no exception leaves it.
C10_NoExceptionEscapes ==
    \A l \in Listeners : pc[l] # "crashed"

\* the predicate evaluated now, on the file and the instrument of the latest
\* call of l and on the ledger as it is
VerdictNow(l) ==
    need_to_process_image(call[l].path, call[l].content, call[l].instrument,
                          ledger[call[l].path],
                          ctx.ignore_schedulability, ctx.max_tries).result

\* C17: the predicate reserves nothing.  While a listener that was told true
\* has not yet committed its increment and the ledger is as its evaluation
\* left it, the predicate evaluated for the same file is true again, so a
\* second listener enters the processing of the file as well.
C17_VerdictNotExclusive ==
    \A l \in Listeners :
        ( /\ Evaluated(l)
          /\ res[l] = "true"
          /\ pc[l] = "incr"
          /\ ledger[call[l].path] = call[l].after )
        => VerdictNow(l) = "true"

\* reached: both listeners were told true for the same file on the same
\* record, hence before either had committed its increment, and both have
\* run the pipeline on it
C17_Witness ==
    /\ \A l \in Listeners :
         /\ pc[l] = "mark"
         /\ res[l] = "true"
         /\ trace[l] = <<"ack", "check", "incr", "run">>
    /\ call["l1"].path = call["l2"].path
    /\ call["l1"].content = call["l2"].content
    /\ call["l1"].after = call["l2"].after
    /\ ledger[call["l1"].path].tries = call["l1"].after.tries + 2

\* listener l has evaluated the predicate on a file whose header could be
\* read, so that the instrument of the header was looked up
InstrumentLookedUp(l) == Evaluated(l) /\ CallHeader(l) # NoneHeader

\* the predicate on the arguments of the latest call of l, had the instrument
\* been schedulable
VerdictIfSchedulable(l) ==
    need_to_process_image(call[l].path, call[l].content,
                          [call[l].instrument EXCEPT !.schedulable = TRUE],
                          call[l].before,
                          ctx.ignore_schedulability, ctx.max_tries).result

\* C18: the predicate returns false when the instrument lookup fails with a
\* value error, when the instrument does not pass the selection criteria, and
\* when it is not schedulable and ignore_schedulability is false; with
\* ignore_schedulability true a non-schedulable instrument changes nothing in
\* the verdict.
C18_InstrumentGate ==
    \A l \in Listeners :
        InstrumentLookedUp(l) =>
            /\ call[l].instrument = InstrumentValueError => res[l] = "false"
            /\ ( /\ call[l].instrument # InstrumentValueError
                 /\ \/ ~call[l].instrument.passes
                    \/ ~ctx.ignore_schedulability /\ ~call[l].instrument.schedulable )
               => res[l] = "false"
            /\ ( /\ call[l].instrument # InstrumentValueError
                 /\ ctx.ignore_schedulability
                 /\ ~call[l].instrument.schedulable )
               => res[l] = VerdictIfSchedulable(l)

\* reached: schedulability ignored, and a file of a camera that is not
\* schedulable is to be processed
C18_Witness ==
    \E l \in Listeners :
        /\ InstrumentLookedUp(l)
        /\ pc[l] = "incr"
        /\ ctx.ignore_schedulability
        /\ call[l].instrument # InstrumentValueError
        /\ ~call[l].instrument.schedulable
        /\ res[l] = "true"

\* C20: when the checksum of the file equals the recorded one, the predicate
\* changes none of checksum, tries and success; it commits the record, as it
\* was, when tries < max_tries and success is false, and writes nothing when
\* the tries are used up or the file is done.
C20_UnchangedChecksumWrites ==
    \A l \in Listeners :
        ( /\ Evaluated(l)
          /\ SameChecksum(l) )
        => /\ call[l].after = call[l].before
           /\ call[l].commits =
                 IF call[l].before.tries < ctx.max_tries /\ ~call[l].before.success
                 THEN <<call[l].before>>
                 ELSE <<>>

\* reached: an unchanged file with tries left is evaluated once more and its
\* record is committed as it was
C20_Witness ==
    \E l \in Listeners :
        /\ Evaluated(l)
        /\ SameChecksum(l)
        /\ call[l].before.tries >= 1
        /\ call[l].before.tries < ctx.max_tries
        /\ ~call[l].before.success
        /\ call[l].commits = <<call[l].before>>
        /\ ledger[call[l].path] = call[l].before

\* C21: with one listener, a path whose file does not change is run at most
\* max_tries times, the tries of its record never exceed max_tries, and once
\* they equal max_tries a message for the path is skipped.
C21_BoundedRetries ==
    /\ \A p \in Paths :
         ledger[p] # NoRec
         => /\ ledger[p].tries <= ctx.max_tries
            /\ runs[p] <= ctx.max_tries
            /\ runs[p] <= ledger[p].tries
    /\ \A l \in Listeners :
         ( /\ Evaluated(l)
           /\ SameChecksum(l)
           /\ call[l].before.tries = ctx.max_tries )
         => /\ res[l] = "false"
            /\ pc[l] \notin IfBlock
            /\ call[l].after = call[l].before

\* reached: every try of a file was used by a run that failed, and the next
\* message for the file has been skipped
C21_Witness ==
    \E l \in Listeners :
        /\ Evaluated(l)
        /\ SameChecksum(l)
        /\ pc[l] = "returned"
        /\ res[l] = "false"
        /\ ~call[l].before.success
        /\ call[l].before.tries = ctx.max_tries
        /\ runs[call[l].path] = ctx.max_tries
        /\ trace[l] = <<"ack", "check">>

\* C22: with one listener, once a path is marked as successfully processed a
\* message for it neither runs the pipeline nor changes the ledger while the
\* file's checksum equals the recorded one, and after a change of the file
\* content the next message for a file meeting conditions 1-5 runs the
\* pipeline again.
C22_NoRedundantReprocessing ==
    \A l \in Listeners :
        ( /\ Evaluated(l)
          /\ call[l].before # NoRec
          /\ call[l].before.success )
        => /\ SameChecksum(l)
              => /\ res[l] = "false"
                 /\ pc[l] \notin IfBlock
                 /\ call[l].commits = <<>>
                 /\ call[l].after = call[l].before
           /\ ( /\ ~SameChecksum(l)
                /\ HeaderConditionsHold(l)
                /\ RawLevel(l)
                /\ InstrumentConditionHolds(l) )
              => /\ res[l] = "true"
                 /\ pc[l] \in IfBlock \cup {"returned"}

\* C32: with any number of listeners and the file content changing between
\* messages, a record with success = true has the checksum of a file content
\* on which a pipeline run returned without error.
C32_SuccessSound ==
    \A p \in Paths :
        (ledger[p] # NoRec /\ ledger[p].success)
        => [path |-> p, checksum |-> ledger[p].checksum] \in done

(***************************************************************************)
(* Properties of the utility functions                                     *)
(***************************************************************************)

\* get_stages_todo has returned
StagesReturned == arg.fn = "get_stages_todo" /\ ret.result = "returned"

StagesExtra == IF arg.extra_stages = None THEN <<>> ELSE arg.extra_stages

\* the first k + 1 ordered stages followed by the extra stages, resolved
StagesUpTo(k) ==
    ImportAll(SubSeq(arg.ordered_stages, 1, k + 1)) \o ImportAll(StagesExtra)

\* C11 as stated: for a last stage located at index k (counted from 0) of the
\* ordered list, the result is the first k + 1 ordered stages followed by the
\* extra stages.
C11_Original ==
    StagesReturned =>
        \A k \in 0..(Len(arg.ordered_stages) - 1) :
            arg.ordered_stages[k + 1] = arg.last_stage
            => ret.value = StagesUpTo(k)

\* C11: for a last stage whose first occurrence in the ordered list is at
\* index k, get_stages_todo returns the first k + 1 ordered stages followed
\* by the extra stages in their order, whatever follows index k in the list;
\* with no last stage it returns all ordered stages followed by the extra
\* stages.
C11_StagesTodo ==
    StagesReturned =>
        /\ arg.last_stage = NoStage
           => ret.value = ImportAll(arg.ordered_stages) \o ImportAll(StagesExtra)
        /\ \A k \in 0..(Len(arg.ordered_stages) - 1) :
            ( /\ arg.ordered_stages[k + 1] = arg.last_stage
              /\ \A j \in 1..k : arg.ordered_stages[j] # arg.last_stage )
            => /\ ret.value = StagesUpTo(k)
               /\ \A tail \in SeqsUpTo(StageNames, 1) :
                    get_stages_todo(SubSeq(arg.ordered_stages, 1, k + 1) \o tail,
                                    arg.last_stage, arg.extra_stages) = ret

\* reached: a cutoff in the middle of the list, with extra stages
C11_Witness ==
    /\ StagesReturned
    /\ Len(arg.ordered_stages) = 3
    /\ arg.last_stage = arg.ordered_stages[2]
    /\ arg.ordered_stages[1] # arg.last_stage
    /\ Len(StagesExtra) = 2
    /\ Len(ret.value) = 4

\* make_image_path_list has returned the list of a directory
PathListReturned ==
    /\ arg.fn = "make_image_path_list"
    /\ arg.raw_path = Dir
    /\ ret.result = "returned"

\* the name is one of the directory's, compressed, and the name without the
\* .fz is not one of the directory's
OnlyCompressed(f) ==
    /\ EndsWith(f, DotFitsFz)
    /\ \A g \in Range(arg.listing) : g \o DotFz # f

\* the frame a file holds: its name, without the .fz of a compressed file
LogicalFrame(f) ==
    IF EndsWith(f, DotFitsFz) THEN SubSeq(f, 1, Len(f) - Len(DotFz)) ELSE f

\* C13: for a directory, make_image_path_list returns every *.fits path and
\* exactly those *.fits.fz paths whose uncompressed counterpart is not in the
\* directory, and no logical frame appears twice.
C13_PathList ==
    PathListReturned =>
        /\ Range(ret.value) =
              {f \in Range(arg.listing) : EndsWith(f, DotFits) \/ OnlyCompressed(f)}
        /\ \A i, j \in 1..Len(ret.value) :
              i # j => LogicalFrame(ret.value[i]) # LogicalFrame(ret.value[j])

\* reached: a directory holding a frame in both forms and another frame only
\* compressed
C13_Witness ==
    /\ PathListReturned
    /\ {FitsPath, FitsPath \o DotFz, FzPath} \subseteq Range(arg.listing)
    /\ LogicalFrame(FzPath) \notin Range(arg.listing)
    /\ Len(ret.value) = 2

\* check_image_homogeneity has returned or raised
HomogeneityChecked ==
    arg.fn = "check_image_homogeneity" /\ ret.result \in {"returned", "raise"}

\* nx, ny, site, camera and the extra attributes given
CheckedAttributes ==
    {"nx", "ny", "site", "camera"}
    \cup (IF arg.group_by_attributes = None THEN {}
          ELSE Range(arg.group_by_attributes))

\* all frames of the batch have the same value of the attribute
AllEqual(attribute) ==
    \A i, j \in 1..Len(arg.images) :
        arg.images[i][attribute] = arg.images[j][attribute]

\* C14: check_image_homogeneity passes if and only if all frames have equal
\* nx, ny, site, camera and equal values of every extra attribute; otherwise
\* it raises the inhomogeneous-set error, whose message names an attribute on
\* which the frames differ.  The caller's list of extra attributes is not
\* modified.
C14_Homogeneity ==
    HomogeneityChecked =>
        /\ ret.result = "returned" <=> \A a \in CheckedAttributes : AllEqual(a)
        /\ ret.result = "raise"
           => \E a \in CheckedAttributes :
                 /\ ~AllEqual(a)
                 /\ ret.message = <<"Images have different ", a, "s">>
        /\ ret.group_by_attributes = arg.group_by_attributes

\* reached: a batch that differs only on an extra attribute
C14_Witness ==
    /\ HomogeneityChecked
    /\ ret.result = "raise"
    /\ arg.group_by_attributes = <<"ccdsum", "filter">>
    /\ ~AllEqual("filter")
    /\ \A a \in CheckedAttributes \ {"filter"} : AllEqual(a)

\* select_images has returned
Selected == arg.fn = "select_images" /\ ret.result = "returned"

\* the record of the path after the predicate has been evaluated on the
\* first n candidates
RECURSIVE RecordAfter(_, _)
RecordAfter(n, path) ==
    IF n = 0 THEN arg.ledger[path]
    ELSE IF arg.image_list[n] # path THEN RecordAfter(n - 1, path)
    ELSE LET out == need_to_process_image(path, arg.disk[path], arg.instrument,
                                          RecordAfter(n - 1, path),
                                          arg.ignore_schedulability,
                                          DefaultMaxTries)
         IN  IF out.result = "raise" THEN RecordAfter(n - 1, path) ELSE out.rec

\* conditions (a), (b) and (c) of the n-th candidate
Eligible(n) ==
    LET path == arg.image_list[n]
        header == GetPrimaryHeader(arg.disk[path])
    IN  /\ need_to_process_image(path, arg.disk[path], arg.instrument,
                                 RecordAfter(n - 1, path),
                                 arg.ignore_schedulability,
                                 DefaultMaxTries).result = "true"
        /\ arg.image_type = NoType \/ header.OBSTYPE = arg.image_type
        /\ \/ arg.ignore_schedulability
           \/ /\ arg.instrument # InstrumentValueError
              /\ arg.instrument.schedulable

\* the eligible candidates from position n on, in the order of the list
RECURSIVE EligibleFrom(_)
EligibleFrom(n) ==
    IF n > Len(arg.image_list) THEN <<>>
    ELSE (IF Eligible(n) THEN <<arg.image_list[n]>> ELSE <<>>)
         \o EligibleFrom(n + 1)

\* C15: select_images returns a candidate if and only if (a) the predicate
\* is true for it, (b) no observation type was requested or the header's
\* observation type is the requested one, and (c) schedulability is ignored
\* or the instrument is schedulable; the result keeps the order of the list.
C15_SelectImages == Selected => ret.value = EligibleFrom(1)

\* reached: two candidates of the requested type on a schedulable camera,
\* both selected
C15_Witness ==
    /\ Selected
    /\ arg.image_list = <<FzPath, FitsPath>>
    /\ arg.image_type = "EXPOSE"
    /\ ~arg.ignore_schedulability
    /\ ret.value = <<FzPath, FitsPath>>

\* get_configuration_mode has returned
ConfModeReturned == arg.fn = "get_configuration_mode" /\ ret.result = "returned"

\* CONFMODE is absent, or is N/A, the number 0 or normal in any case
DefaultingConfMode ==
    \/ "CONFMODE" \notin DOMAIN arg.header
    \/ arg.header["CONFMODE"] \in {PyStr(<<"N", "/", "A">>), PyInt(0)}
    \/ /\ arg.header["CONFMODE"].type = "str"
       /\ Len(arg.header["CONFMODE"].chars) = 6
       /\ \A i \in 1..6 :
            arg.header["CONFMODE"].chars[i]
                \in {<<"n", "o", "r", "m", "a", "l">>[i], <<"N", "O", "R", "M", "A", "L">>[i]}

\* C16: get_configuration_mode returns default when CONFMODE is absent or is
\* N/A, 0 or normal in any case; any other string is returned unchanged; in
\* every case the header's CONFMODE equals the value returned afterwards.
C16_ConfigurationMode ==
    ConfModeReturned =>
        /\ DefaultingConfMode => ret.value = PyStr(<<"d", "e", "f", "a", "u", "l", "t">>)
        /\ ( /\ ~DefaultingConfMode
             /\ arg.header["CONFMODE"].type = "str" )
           => ret.value = arg.header["CONFMODE"]
        /\ ret.header["CONFMODE"] = ret.value

\* reached: a header whose CONFMODE is Normal
C16_Witness ==
    /\ ConfModeReturned
    /\ "CONFMODE" \in DOMAIN arg.header
    /\ arg.header["CONFMODE"] = PyStr(<<"N", "o", "r", "m", "a", "l">>)
    /\ ret.value = PyStr(<<"d", "e", "f", "a", "u", "l", "t">>)
    /\ ret.header["CONFMODE"] = PyStr(<<"d", "e", "f", "a", "u", "l", "t">>)

\* C19: increment_try_number raises the tries of the record by exactly 1 and
\* leaves checksum and success as they are; set_file_as_processed sets success
\* and leaves tries and checksum as they are, and when the path has no record
\* it changes nothing and does not raise.
C19_Mutators ==
    /\ ( /\ arg.fn = "increment_try_number"
         /\ ret # NoRet
         /\ arg.rec # NoRec )
       => /\ ret.result = "returned"
          /\ ret.rec = [arg.rec EXCEPT !.tries = @ + 1]
    /\ ( /\ arg.fn = "set_file_as_processed"
         /\ ret # NoRet )
       => /\ ret.result = "returned"
          /\ ret.rec = IF arg.rec = NoRec THEN NoRec
                       ELSE [arg.rec EXCEPT !.success = TRUE]

\* evaluating the candidate raises: its header cannot be read, or the lookup
\* of its instrument fails
CandidateRaises(a, filename) ==
    SelectOne(filename, a.disk[filename], a.instrument, a.ledger[filename],
              a.image_type, a.ignore_schedulability).raised

\* the image_list without the candidates whose evaluation raises
WithoutRaising(a) ==
    LET RECURSIVE Keep(_)
        Keep(n) == IF n = 0 THEN <<>>
                   ELSE IF CandidateRaises(a, a.image_list[n]) THEN Keep(n - 1)
                   ELSE Append(Keep(n - 1), a.image_list[n])
    IN  [a EXCEPT !.image_list = Keep(Len(a.image_list))]

\* C27: select_images does not raise; a candidate whose evaluation raises is
\* not in the result, every candidate is evaluated, and the result is the
\* result of select_images on the list without the raising candidates.
C27_ExceptionIsolation ==
    (arg.fn = "select_images" /\ ret # NoRet)
    => /\ ret.result = "returned"
       /\ ret.evaluated = Len(arg.image_list)
       /\ \A n \in 1..Len(arg.image_list) :
            CandidateRaises(arg, arg.image_list[n])
            => arg.image_list[n] \notin Range(ret.value)
       /\ ret.value = select_images(WithoutRaising(arg)).value

\* reached: the first candidate raised and the second was selected
C27_Witness ==
    /\ arg.fn = "select_images"
    /\ ret # NoRet
    /\ Len(arg.image_list) = 2
    /\ CandidateRaises(arg, arg.image_list[1])
    /\ ret.value = <<arg.image_list[2]>>

(***************************************************************************)
(* Properties of main.run                                                  *)
(***************************************************************************)

\* C12: if a stage returns the stop value, no stage after it is executed, no
\* output is written and run returns without raising.
C12_StopSentinel ==
    \A n \in 1..Len(job.ran) :
        job.ran[n].outcome = "none"
        => /\ n = Len(job.ran)
           /\ job.written = <<>>
           /\ job.pc # "raised"

\* the frame a run of main.run has read, if it had an obstype with a
\* configured last stage
RunStarted == job.pc \in {"stages", "returned", "raised"} /\ job.stages # <<>>

\* what the k-th call of a stage left in `image`
ResultOfCall(k) ==
    StageResult([class |-> job.ran[k].stage], job.ran[k].given,
                job.ran[k].outcome)

\* C23: in a single-frame run the stages of the resolved list are executed in
\* list order, each at most once and all of them when the run returns, each
\* given what the previous one returned; the frame is written at most once,
\* and only after the last stage has returned a frame.
C23_StageOrder ==
    RunStarted
    => /\ Len(job.ran) = job.i
       /\ Len(job.ran) <= Len(job.stages)
       /\ \A k \in 1..Len(job.ran) :
            /\ job.ran[k].stage = job.stages[k].class
            /\ k = 1 => job.ran[k].given \in {FrameOf(t) : t \in RunTypes}
            /\ k > 1 => job.ran[k].given = ResultOfCall(k - 1)
            /\ k < Len(job.ran) => job.ran[k].outcome # "raise"
       /\ job.pc = "returned" => Len(job.ran) = Len(job.stages)
       /\ Len(job.written) <= 1
       /\ job.written # <<>>
          => /\ job.pc = "returned"
             /\ job.ran[Len(job.stages)].outcome = "frame"
             /\ job.written[1] = ResultOfCall(Len(job.stages))
             /\ job.written[1].applied
                  = [k \in 1..Len(job.stages) |-> job.stages[k].class]

\* reached: a SKYFLAT frame went through every stage and was written
C23_Witness ==
    /\ job.pc = "returned"
    /\ Len(job.stages) > 2
    /\ Len(job.ran) = Len(job.stages)
    /\ Len(job.written) = 1
    /\ job.written[1].obstype = "SKYFLAT"

\* the stages of ORDERED_STAGES up to and including the last stage of the type
UpToLastStage(obstype) ==
    SubSeq(ORDERED_STAGES, 1, ListIndex(ORDERED_STAGES, LastStageOf(obstype)) + 1)

\* C24: with preview mode set, the run of a calibration frame executes the
\* ordered stages up to the type's last stage followed by the type's
\* preview-mode extra stages, which leave out the stage making the master.
C24_PreviewStages ==
    ( /\ RunStarted
      /\ job.preview_mode
      /\ job.pc = "returned" )
    => [k \in 1..Len(job.ran) |-> job.ran[k].stage]
         = UpToLastStage(job.ran[1].given.obstype)
             \o PreviewExtraStagesOf(job.ran[1].given.obstype)

\* the observation type of the frame the run has read
RunObstype ==
    IF job.ran = <<>> THEN job.image.obstype ELSE job.ran[1].given.obstype

\* the classes of the resolved stage list
ResolvedClasses == {job.stages[k].class : k \in 1..Len(job.stages)}

\* the position of the type's last stage in the ordered stage list
CutoffOf(obstype) == ListIndex(ORDERED_STAGES, LastStageOf(obstype))

\* C33: in the Imaging profile the last stages of BIAS, DARK and SKYFLAT are
\* members of the ordered stage list at strictly increasing positions, and
\* the resolved stage list of a bias frame has no bias subtraction, that of a
\* dark frame has bias subtraction and no dark subtraction, that of a flat
\* frame has bias and dark subtraction and no flat division.
C33_CutoffChain ==
    RunStarted
    => /\ \A t \in CalibrationTypes : LastStageOf(t) \in Range(ORDERED_STAGES)
       /\ CutoffOf("BIAS") < CutoffOf("DARK")
       /\ CutoffOf("DARK") < CutoffOf("SKYFLAT")
       /\ RunObstype = "BIAS"
          => "bias.BiasSubtractor" \notin ResolvedClasses
       /\ RunObstype = "DARK"
          => /\ "bias.BiasSubtractor" \in ResolvedClasses
             /\ "dark.DarkSubtractor" \notin ResolvedClasses
       /\ RunObstype = "SKYFLAT"
          => /\ "bias.BiasSubtractor" \in ResolvedClasses
             /\ "dark.DarkSubtractor" \in ResolvedClasses
             /\ "flats.FlatDivider" \notin ResolvedClasses

\* reached: the stage list of a flat frame has been resolved and run through
C33_Witness ==
    /\ RunStarted
    /\ RunObstype = "SKYFLAT"
    /\ job.pc = "returned"
    /\ "flats.FlatMaker" \in ResolvedClasses

(***************************************************************************)
(* Properties of read_image and of the batch functions of main             *)
(***************************************************************************)

ReadImageReturned == arg.fn = "read_image" /\ ret # NoRet

\* C25: read_image on a file whose frame has no instrument ends with an I/O
\* error raised to its caller; any other error of the construction is logged
\* and read_image returns no frame.
C25_ReadImageErrors ==
    ReadImageReturned
    => /\ arg.file.kind = "no_instrument"
          => (ret.result = "raise" /\ ret.exception = "IOError")
       /\ arg.file.kind \in {"unreadable", "unmungeable"}
          => /\ ret.result = "returned"
             /\ ret.value = NoFrame
             /\ ret.logged # <<>>

MasterMakerEnded == arg.fn = "run_master_maker" /\ ret # NoRet

\* the frames of the listed files that loading yields, in list order
FramesLoaded(files) ==
    LET RECURSIVE Keep(_)
        Keep(k) == IF k = 0 THEN <<>>
                   ELSE IF read_image(files[k]).value = NoFrame
                   THEN Keep(k - 1)
                   ELSE Append(Keep(k - 1), read_image(files[k]).value)
    IN  Keep(Len(files))

\* C26: in run_master_maker a listed file whose loading yields no frame is
\* skipped: every element of the batch handed to the stacking stage is a
\* loaded frame; the stacking stage is executed exactly once on that batch
\* and every frame it returns is written.
C26_MasterBatch ==
    MasterMakerEnded
    => /\ Len(ret.executed) = 1
       /\ ret.executed[1].stage = StackerOf(arg.frame_type)
       /\ \A k \in 1..Len(ret.executed[1].given) :
            ret.executed[1].given[k] # NoFrame
       /\ ret.executed[1].given = FramesLoaded(arg.files)
       /\ ret.result = "returned" => ret.written = arg.masters

ProcessDirectoryEnded == arg.fn = "process_directory" /\ ret # NoRet

\* C28: process_directory calls run once for each selected file, in the
\* order of the selection, whether or not the run of an earlier file raised,
\* and does not raise itself.
C28_BatchErrorBoundary ==
    ProcessDirectoryEnded
    => /\ ret.result = "returned"
       /\ Len(ret.calls) = Len(ret.images_to_reduce)
       /\ \A n \in 1..Len(ret.calls) :
            /\ ret.calls[n].image_path = ret.images_to_reduce[n]
            /\ ret.calls[n].outcome = arg.outcome[ret.images_to_reduce[n]]

\* reached: two files were selected, the run of the first raised and the
\* second was run
C28_Witness ==
    /\ ProcessDirectoryEnded
    /\ Len(ret.images_to_reduce) = 2
    /\ Len(ret.calls) = 2
    /\ ret.calls[1].outcome = "raise"
    /\ ret.calls[2].image_path # ret.calls[1].image_path

NightEnded == arg.fn = "run_easy_process_directory" /\ ret # NoRet

\* the steps of one instrument, in the order of the claim
NightSteps ==
    <<<<"reduce_directory", <<"BIAS">>>>,
      <<"process_master_maker", <<"BIAS">>>>,
      <<"reduce_directory", <<"DARK">>>>,
      <<"process_master_maker", <<"DARK">>>>,
      <<"reduce_directory", <<"SKYFLAT">>>>,
      <<"process_master_maker", <<"SKYFLAT">>>>,
      <<"reduce_directory", <<"EXPOSE", "STANDARD">>>>>>

\* C29: for each selected instrument, in the order of the selection, the
\* steps reduce BIAS, master BIAS, reduce DARK, master DARK, reduce SKYFLAT,
\* master SKYFLAT, reduce EXPOSE/STANDARD are made in this order; a step that
\* raises is logged, and every step of every instrument is still made.
C29_NightOrder ==
    NightEnded
    => /\ ret.result = "returned"
       /\ Len(ret.calls) = Len(NightSteps) * Len(arg.instruments)
       /\ \A n \in 1..Len(arg.instruments) :
            \A k \in 1..Len(NightSteps) :
                LET made == ret.calls[(n - 1) * Len(NightSteps) + k]
                IN  /\ made.call.instrument = arg.instruments[n]
                    /\ made.call.fn = NightSteps[k][1]
                    /\ made.call.image_types = NightSteps[k][2]
                    /\ made.outcome = "raise" <=> made.call \in arg.raising
       /\ ret.logged = Cardinality(arg.raising)

\* reached: the master BIAS step of the first of two instruments raised, and
\* all the steps of both instruments were made
C29_Witness ==
    /\ NightEnded
    /\ Len(arg.instruments) = 2
    /\ ret.calls[2].outcome = "raise"
    /\ Len(ret.calls) = 14
    /\ ret.calls[14].outcome = "returned"

\* C31: when the query of process_master_maker returns no file path, the
\* stacking stage is neither constructed nor executed and nothing is written.
C31_EmptyStackingWindow ==
    ( /\ arg.fn = "process_master_maker"
      /\ ret # NoRet
      /\ arg.files = <<>> )
    => /\ ret.executed = <<>>
       /\ ret.written = <<>>

(***************************************************************************)
(* Properties of the listener process                                      *)
(***************************************************************************)

\* C30: after a connection error the listener retries the connection at most
\* 10 times; when an attempt has connected the listener consumes from its
\* queue again, and the process ends with a failure only when the attempts
\* are exhausted.
C30_Reconnection ==
    proc # NoProc
    => /\ proc.retries <= MaxRetries
       /\ proc.reconnected => proc.pc = "run"
       /\ (proc.pc = "exited" /\ proc.exit # "interrupted")
          => /\ proc.exit = "connection_error"
             /\ proc.retries = MaxRetries

====
